---- MODULE Spec2Model ----
(***************************************************************************)
(* Heap type collection and index assignment of src/ir/module-utils.cpp:   *)
(* the usage scanner (CodeScanner), the closure expansion of               *)
(* getHeapTypeCounts, and the two index assignment strategies of           *)
(* getOptimizedIndexedHeapTypes.                                           *)
(***************************************************************************)
EXTENDS Integers, Sequences, FiniteSets, TLC

(***************************************************************************)
(* Bounds of the model.                                                    *)
(***************************************************************************)
\* Largest number of functions a module declares.
MaxFuncs == 2
\* Largest number of worker threads of the parallel function analysis.
MaxWorkers == 2
\* Unordered containers of at most this many elements are iterated in every
\* possible order; larger ones in the rotations of two base orders.
FullPermBound == 3

(***************************************************************************)
(* The state of one run of the pass.                                       *)
(***************************************************************************)
VARIABLES
  system,        \* the type system getTypeSystem() returns
  numWorkers,    \* worker threads of the parallel function analysis
  wasm,          \* the module (read only)
  phase,         \* where the run is
  counts,        \* the module-level Counts of getHeapTypeCounts
  fstate,        \* per function: "idle", "running" or "done"
  fpc,           \* per function: the next expression of the body to visit
  analysisMap,   \* analysis.map: per function, its private Counts
  completionOrder, \* while tasks run: the functions in the order their tasks ended
  closure,       \* newTypes, includedGroups and a log of the worklist loop
  groupInfos,    \* RecGroup -> GroupInfo
  topo,          \* the topological sort: workStack, finished, emitted groups
  indexedTypes,  \* the IndexedHeapTypes being built: types and indices
  collected      \* the vector collectHeapTypes returns

vars == <<system, numWorkers, wasm, phase, counts, fstate, fpc, analysisMap, completionOrder, closure, groupInfos, topo, indexedTypes, collected>>

(***************************************************************************)
(* Small helpers on sequences.                                             *)
(***************************************************************************)
Range(s) == {s[i] : i \in DOMAIN s}

NoDup(s) == \A i, j \in DOMAIN s : s[i] = s[j] => i = j

Contains(s, x) == \E i \in DOMAIN s : s[i] = x

\* Index of the first occurrence of x in s (0 when absent).
IndexOf(s, x) == IF Contains(s, x) THEN CHOOSE i \in DOMAIN s : s[i] = x /\ \A j \in 1..(i - 1) : s[j] # x ELSE 0

Reverse(s) == [i \in 1..Len(s) |-> s[Len(s) + 1 - i]]

Rotate(s, k) == [i \in 1..Len(s) |-> s[((i + k - 1) % Len(s)) + 1]]

\* TRUE, and v has been computed: statements run one after the other, so
\* no step takes up the pending result of the step before it.
evaluated(v) == v = v

\* for (e : s) acc = Op(acc, e): the loop over s in order, each iteration
\* on the result of the one before, the first on the value acc has when
\* the loop is reached.  The sequence is walked by halves: first half,
\* then second half on what the first half left.
foldLeft(Op(_, _), acc, s) ==
  LET RECURSIVE span(_, _, _)
      span(a, lo, hi) ==
        IF lo > hi THEN a
        ELSE IF lo = hi THEN Op(a, s[lo])
        ELSE LET mid == (lo + hi) \div 2
                 left == span(a, lo, mid)
             IN CASE evaluated(left) -> span(left, mid + 1, hi)
  IN CASE evaluated(acc) -> span(acc, 1, Len(s))

\* Every sequence that lists the elements of S exactly once.
RECURSIVE Perms(_)
Perms(S) == IF S = {} THEN {<<>>} ELSE UNION {{<<x>> \o p : p \in Perms(S \ {x})} : x \in S}

(***************************************************************************)
(* The type universe: heap types with their navigation operations.  The    *)
(* module under analysis only refers to these types; the pass never        *)
(* creates or changes one.                                                 *)
(***************************************************************************)
TypeSystems == {"Equirecursive", "Isorecursive", "Nominal"}

BasicHeapTypes == {"any", "func"}

\* A    struct {}                              root of a subtype chain
\* B    struct {ref any, ref A, ref A}         sub A
\* C    struct {ref C}                         sub B, refers to itself
\* D    struct {}                              leaf, declared with L
\* L    struct {ref L, ref func}               refers to itself
\* S1   struct {ref S2}                        mutually recursive with S2
\* S2   struct {ref S1, ref A}
\* F    func (ref B) -> (ref S1)
\* T    func () -> (ref A, i32)                signature of a tuple result
\* V    func () -> ()
NonBasicHeapTypes == {"A", "B", "C", "D", "L", "S1", "S2", "F", "T", "V"}

HeapTypes == BasicHeapTypes \cup NonBasicHeapTypes

isBasic(t) == t \in BasicHeapTypes

getHeapTypeChildren(t) ==
  CASE t = "B" -> <<"any", "A", "A">>
    [] t = "C" -> <<"C">>
    [] t = "L" -> <<"L", "func">>
    [] t = "S1" -> <<"S2">>
    [] t = "S2" -> <<"S1", "A">>
    [] t = "F" -> <<"B", "S1">>
    [] t = "T" -> <<"A">>
    [] OTHER -> <<>>

\* The declared supertype: a sequence of no or one heap type.
getSuperType(t) ==
  CASE t = "B" -> <<"A">>
    [] t = "C" -> <<"B">>
    [] OTHER -> <<>>

getReferencedHeapTypes(t) == getHeapTypeChildren(t) \o getSuperType(t)

\* The recursion groups declared under isorecursive typing, each with its
\* members in their inherent order.
IsoRecGroup(t) ==
  CASE t \in {"S1", "S2"} -> <<"S1", "S2">>
    [] t \in {"L", "D"} -> <<"L", "D">>
    [] OTHER -> <<t>>

(***************************************************************************)
(* Value types.  A value type is the sequence of its elements: the empty   *)
(* sequence is none, one element is a single value type, more are a tuple. *)
(* An element is a heap type (a reference to it) or a non-reference.       *)
(***************************************************************************)
TypeNone == <<>>
TypeI32 == <<"i32">>
TypeUnreachable == <<"unreachable">>
RefTo(h) == <<h>>

isRef(ty) == Len(ty) = 1 /\ ty[1] \in HeapTypes

isTuple(ty) == Len(ty) > 1

getHeapType(ty) == ty[1]

typeHeapTypeChildren(ty) == SelectSeq(ty, LAMBDA x : x \in HeapTypes)

\* The heap type of the signature with no parameters and the given results.
SignatureNoneTo(ty) == IF ty = <<"A", "i32">> THEN "T" ELSE "V"

(***************************************************************************)
(* Counts: the insertion ordered map from heap type to use count.          *)
(***************************************************************************)
EmptyCounts == <<>>

keys(cnts) == [i \in DOMAIN cnts |-> cnts[i].type]

has(cnts, t) == \E i \in DOMAIN cnts : cnts[i].type = t

at(cnts, t) == cnts[CHOOSE i \in DOMAIN cnts : cnts[i].type = t].count

\* counts[t] += n, creating the entry (with count 0) when absent.
add(cnts, t, n) ==
  IF has(cnts, t)
  THEN [i \in DOMAIN cnts |-> IF cnts[i].type = t THEN [type |-> t, count |-> cnts[i].count + n] ELSE cnts[i]]
  ELSE Append(cnts, [type |-> t, count |-> n])

noteUnchecked(cnts, t) == add(cnts, t, 1)

note(cnts, t) == IF ~isBasic(t) THEN add(cnts, t, 1) ELSE cnts

noteAll(cnts, hts) == foldLeft(note, cnts, hts)

noteType(cnts, ty) == noteAll(cnts, typeHeapTypeChildren(ty))

include(cnts, t) == IF ~isBasic(t) THEN add(cnts, t, 0) ELSE cnts

(***************************************************************************)
(* Expressions, in the order the post-order walk visits them.  Every       *)
(* expression carries the fields the scanner reads: its kind, its type     *)
(* ty, the heap type h it names (the callee type of a call_indirect, the   *)
(* heap type of an RTT, the intended type of a cast), whether it carries a *)
(* dynamic rtt, and the op of a br_on.  For struct.get and struct.set ty   *)
(* is the type of the accessed reference.                                  *)
(***************************************************************************)
Expr(kind, h, ty, rtt, op) == [kind |-> kind, h |-> h, ty |-> ty, rtt |-> rtt, op |-> op]

CallIndirect(h) == Expr("CallIndirect", h, TypeNone, FALSE, "")
RefNull(ty) == Expr("RefNull", "", ty, FALSE, "")
RttCanon(h) == Expr("RttCanon", h, TypeNone, FALSE, "")
RttSub(h) == Expr("RttSub", h, TypeNone, FALSE, "")
StructNew(ty, rtt) == Expr("StructNew", "", ty, rtt, "")
ArrayNew(ty, rtt) == Expr("ArrayNew", "", ty, rtt, "")
ArrayInit(ty, rtt) == Expr("ArrayInit", "", ty, rtt, "")
RefCast(h, rtt) == Expr("RefCast", h, TypeNone, rtt, "")
RefTest(h, rtt) == Expr("RefTest", h, TypeI32, rtt, "")
BrOn(op, h, rtt) == Expr("BrOn", h, TypeNone, rtt, op)
StructGet(refTy) == Expr("StructGet", "", refTy, FALSE, "")
StructSet(refTy) == Expr("StructSet", "", refTy, FALSE, "")
LocalGet(ty) == Expr("LocalGet", "", ty, FALSE, "")
LocalSet(ty) == Expr("LocalSet", "", ty, FALSE, "")
Block(ty) == Expr("Block", "", ty, FALSE, "")
Loop(ty) == Expr("Loop", "", ty, FALSE, "")
Const(ty) == Expr("Const", "", ty, FALSE, "")

isControlFlowStructure(e) == e.kind \in {"Block", "If", "Loop", "Try"}

handleMake(cnts, curr) ==
  IF ~curr.rtt /\ curr.ty # TypeUnreachable THEN note(cnts, getHeapType(curr.ty)) ELSE cnts

handleCast(cnts, curr) == IF ~curr.rtt THEN note(cnts, curr.h) ELSE cnts

\* The heap type a local.get or a local.tee makes sure is included.
includeLocalNoting(cnts, curr) == IF isRef(curr.ty) THEN note(cnts, getHeapType(curr.ty)) ELSE cnts

includeLocal(cnts, curr) == IF isRef(curr.ty) THEN include(cnts, getHeapType(curr.ty)) ELSE cnts

visitExpression(cnts, curr) ==
  CASE curr.kind = "CallIndirect" -> note(cnts, curr.h)
    [] curr.kind = "RefNull" -> noteType(cnts, curr.ty)
    [] curr.kind \in {"RttCanon", "RttSub"} -> note(cnts, curr.h)
    [] curr.kind \in {"StructNew", "ArrayNew", "ArrayInit"} -> handleMake(cnts, curr)
    [] curr.kind \in {"RefCast", "RefTest"} -> handleCast(cnts, curr)
    [] curr.kind = "BrOn" -> IF curr.op \in {"BrOnCast", "BrOnCastFail"} THEN handleCast(cnts, curr) ELSE cnts
    [] curr.kind \in {"StructGet", "StructSet"} -> noteType(cnts, curr.ty)
    [] curr.kind \in {"LocalGet", "LocalSet"} -> includeLocal(cnts, curr)
    [] isControlFlowStructure(curr) ->
         IF isTuple(curr.ty) THEN note(cnts, SignatureNoneTo(curr.ty)) ELSE noteType(cnts, curr.ty)
    [] OTHER -> cnts

\* CodeScanner(wasm, counts).walk(...): visit every expression in turn.
walk(cnts, exprs) == foldLeft(visitExpression, cnts, exprs)

noteTypes(cnts, tys) == foldLeft(noteType, cnts, tys)

\* The module-level information: module code, then tags, tables and
\* element segments.
scanModuleLevel(m) ==
  LET code == walk(EmptyCounts, m.moduleCode)
      tags == noteAll(code, m.tags)
      tables == noteTypes(tags, m.tables)
  IN CASE evaluated(code) /\ evaluated(tags) /\ evaluated(tables) -> noteTypes(tables, m.elementSegments)

\* What a function's task does before it walks the body: the function's
\* type, then the types of its vars.
noteFunctionDecl(cnts, func) == noteTypes(note(cnts, func.type), func.vars)

(***************************************************************************)
(* The modules the pass is run on: module-level declarations from          *)
(* DeclPool and up to MaxFuncs functions from FuncPool, in any order and   *)
(* with repetition.                                                        *)
(***************************************************************************)
Function(type, vs, imported, body) == [type |-> type, vars |-> vs, imported |-> imported, body |-> body]

Rep5(x) == <<x, x, x, x, x>>

FuncPool ==
  { Function("V", <<RefTo("A")>>, FALSE, <<LocalGet(RefTo("L")), CallIndirect("V")>>),
    Function("F", <<>>, FALSE, <<LocalSet(RefTo("C")), Block(<<"A", "i32">>)>>),
    Function("T", <<TypeI32>>, TRUE, <<>>),
    Function("V", <<RefTo("C"), <<"D", "i32">>>>, FALSE, <<StructNew(RefTo("S2"), FALSE), RefNull(RefTo("L"))>>),
    Function("V", <<>>, FALSE, <<LocalGet(RefTo("D")), LocalGet(RefTo("func")), LocalSet(TypeNone)>>) }

DeclPool ==
  { [moduleCode |-> <<>>, tags |-> <<>>, tables |-> <<>>, elementSegments |-> <<>>],
    [moduleCode |-> <<>>, tags |-> <<"V", "V">>, tables |-> Rep5(RefTo("A")), elementSegments |-> Rep5(RefTo("D"))],
    [moduleCode |-> <<StructNew(RefTo("S1"), FALSE), RefNull(RefTo("any")), RttCanon("L"), Loop(RefTo("S2")),
                      ArrayNew(RefTo("D"), TRUE), ArrayInit(TypeUnreachable, FALSE), RefCast("S1", FALSE),
                      RefTest("C", TRUE), BrOn("BrOnCast", "D", FALSE), BrOn("BrOnNull", "L", FALSE),
                      StructGet(RefTo("B")), StructSet(TypeUnreachable), RttSub("D"), Const(RefTo("F"))>>,
     tags |-> <<"V">>, tables |-> <<RefTo("func")>>, elementSegments |-> <<RefTo("L"), RefTo("D")>>] }

FunctionLists == UNION {[1..n -> FuncPool] : n \in 0..MaxFuncs}

Modules ==
  { [moduleCode |-> d.moduleCode, tags |-> d.tags, tables |-> d.tables,
     elementSegments |-> d.elementSegments, functions |-> fs] : d \in DeclPool, fs \in FunctionLists }

(***************************************************************************)
(* getHeapTypeCounts: merging the per-function counts (lines 165-170).     *)
(***************************************************************************)
mergeFunctionCounts(cnts, functionCounts) ==
  foldLeft(LAMBDA c, entry : add(c, entry.type, entry.count), cnts, functionCounts)

\* The order in which analysis.map is iterated: it is an insertion ordered
\* map that holds an entry per function, made in declaration order before
\* any task runs.
analysisMapOrders(n) == {[i \in 1..n |-> i]}

mergeAll(cnts, map, order) == foldLeft(LAMBDA c, i : mergeFunctionCounts(c, map[i]), cnts, order)

(***************************************************************************)
(* getHeapTypeCounts: the worklist loop (lines 179-218).  A closure state  *)
(* holds counts, newTypes and includedGroups, and three logs the code does *)
(* not keep: every insertion into newTypes that added an element (with     *)
(* whether counts held the type at that moment), every type taken from     *)
(* newTypes, and every recursion group whose members were scanned.         *)
(***************************************************************************)
getRecGroup(t) == IF system = "Isorecursive" THEN IsoRecGroup(t) ELSE <<t>>

\* newTypes.insert(t)
insertNewType(cs, t) ==
  IF Contains(cs.newTypes, t) THEN cs
  ELSE [cs EXCEPT !.newTypes = Append(@, t),
                  !.enqueued = Append(@, [type |-> t, present |-> has(cs.counts, t), seed |-> FALSE])]

seedNewTypes(cs, ks) ==
  foldLeft(LAMBDA c, type : [c EXCEPT !.newTypes = Append(@, type),
                                      !.enqueued = Append(@, [type |-> type, present |-> TRUE, seed |-> TRUE])],
           cs, ks)

initialClosure(cnts) ==
  seedNewTypes([counts |-> cnts, newTypes |-> <<>>, includedGroups |-> {},
                enqueued |-> <<>>, processed |-> <<>>, scanned |-> <<>>], keys(cnts))

expandChildAlways(cs, child) ==
  IF ~isBasic(child)
  THEN LET c1 == insertNewType(cs, child) IN [c1 EXCEPT !.counts = note(@, child)]
  ELSE cs

expandChild(cs, child) ==
  IF ~isBasic(child)
  THEN LET c1 == IF ~has(cs.counts, child) THEN insertNewType(cs, child) ELSE cs
       IN [c1 EXCEPT !.counts = note(@, child)]
  ELSE cs

expandChildren(cs, children) == foldLeft(expandChild, cs, children)

expandSuper(cs, super) ==
  IF super # <<>> /\ ~has(cs.counts, super[1])
  THEN LET c1 == insertNewType(cs, super[1]) IN [c1 EXCEPT !.counts = include(@, super[1])]
  ELSE cs

includeMember(cs, type) ==
  IF ~has(cs.counts, type)
  THEN LET c0 == insertNewType(cs, type) IN [c0 EXCEPT !.counts = include(@, type)]
  ELSE cs

includeMembers(cs, recGroup) == foldLeft(includeMember, cs, recGroup)

expandRecGroupSkipped(cs, recGroup) == cs

expandRecGroup(cs, recGroup) ==
  IF recGroup \notin cs.includedGroups
  THEN includeMembers([cs EXCEPT !.includedGroups = @ \cup {recGroup}, !.scanned = Append(@, recGroup)], recGroup)
  ELSE cs

\* One iteration of while (!newTypes.empty()).
expandStep(cs) ==
  LET ht == Head(cs.newTypes)
      c0 == [cs EXCEPT !.newTypes = Tail(@), !.processed = Append(@, ht)]
      c1 == expandChildren(c0, getHeapTypeChildren(ht))
      c2 == expandSuper(c1, getSuperType(ht))
  IN CASE evaluated(c1) /\ evaluated(c2) -> expandRecGroup(c2, getRecGroup(ht))

(***************************************************************************)
(* setIndices and the frequency ordered strategy (lines 223-261).          *)
(***************************************************************************)
\* indices[types[i]] = i for i = 0, 1, ...: a later position overwrites an
\* earlier one of the same type.
setIndicesFromOne(types) ==
  [t \in Range(types) |-> CHOOSE i \in DOMAIN types : types[i] = t /\ \A j \in DOMAIN types : types[j] = t => j <= i]

setIndices(types) ==
  [t \in Range(types) |-> (CHOOSE i \in DOMAIN types : types[i] = t /\ \A j \in DOMAIN types : types[j] = t => j <= i) - 1]

moreUsedOrEqual(a, b) == a.count >= b.count

\* The comparison handed to std::stable_sort.
moreUsed(a, b) == a.count > b.count

\* std::stable_sort: an element goes before the first one it must precede,
\* elements are inserted from the back so that equivalent ones keep their
\* order.
stableInsert(sorted, x) ==
  LET before == {i \in DOMAIN sorted : moreUsed(x, sorted[i])}
      k == IF before = {} THEN Len(sorted) + 1 ELSE CHOOSE i \in before : \A j \in before : i <= j
  IN SubSeq(sorted, 1, k - 1) \o <<x>> \o SubSeq(sorted, k, Len(sorted))

stableSort(entries) == foldLeft(stableInsert, <<>>, entries)

(***************************************************************************)
(* The recursion group strategy: GroupInfo and GroupInfoMap                *)
(* (lines 269-337).  useCount is kept as the fraction num / den; the       *)
(* counts of the model are small enough for the double division to be      *)
(* exact up to the comparison.                                             *)
(***************************************************************************)
GroupInfo(index) == [index |-> index, useCount |-> [num |-> 0, den |-> 1], preds |-> {}, sortedPreds |-> <<>>]

NoGroupInfos == [g \in {} |-> GroupInfo(0)]

sameUseCount(a, b) == a.useCount.num * b.useCount.den = b.useCount.num * a.useCount.den

lessUseCount(a, b) == a.useCount.num * b.useCount.den < b.useCount.num * a.useCount.den

lessByUseCountOnly(a, b) == lessUseCount(a, b)

\* GroupInfo::operator<
less(a, b) == IF ~sameUseCount(a, b) THEN lessUseCount(a, b) ELSE a.index > b.index

\* std::sort with GroupInfoMap's comparison: ascending.
insertGroup(infos, sorted, g) ==
  LET after == {i \in DOMAIN sorted : less(infos[g], infos[sorted[i]])}
      k == IF after = {} THEN Len(sorted) + 1 ELSE CHOOSE i \in after : \A j \in after : i <= j
  IN SubSeq(sorted, 1, k - 1) \o <<g>> \o SubSeq(sorted, k, Len(sorted))

sortGroups(infos, groups) == foldLeft(LAMBDA sorted, g : insertGroup(infos, sorted, g), <<>>, groups)

\* The groups of S in the order of their first encounter.
RECURSIVE byIndex(_, _)
byIndex(infos, S) ==
  IF S = {} THEN <<>>
  ELSE LET g == CHOOSE x \in S : \A y \in S : infos[x].index <= infos[y].index
       IN <<g>> \o byIndex(infos, S \ {g})

\* The orders in which an unordered container holding the groups S may be
\* iterated.
IterationOrders(infos, S) ==
  IF Cardinality(S) <= FullPermBound THEN Perms(S)
  ELSE LET b == byIndex(infos, S)
       IN {Rotate(b, k) : k \in 0..(Len(b) - 1)} \cup {Rotate(Reverse(b), k) : k \in 0..(Len(b) - 1)}

\* The predecessor groups one counted type adds to its group (lines 300-319).
predecessorGroups(type, group) ==
  CASE system = "Isorecursive" ->
         {getRecGroup(child) : child \in {c \in Range(getReferencedHeapTypes(type)) : ~isBasic(c) /\ getRecGroup(c) # group}}
    [] system = "Nominal" -> {getRecGroup(super) : super \in Range(getSuperType(type))}

\* One iteration of the loop over counts (lines 293-320).
collectGroupInfo(infos, cnts, type) ==
  LET group == getRecGroup(type)
      infos1 == IF group \in DOMAIN infos THEN infos ELSE infos @@ (group :> GroupInfo(Cardinality(DOMAIN infos)))
  IN [infos1 EXCEPT ![group].useCount.num = @ + at(cnts, type),
                    ![group].preds = @ \cup predecessorGroups(type, group)]

collectGroupInfos(infos, cnts, types) == foldLeft(LAMBDA i, type : collectGroupInfo(i, cnts, type), infos, types)

\* Lines 322-329: useCount /= group.size(), except under nominal typing.
averageUseCounts(infos) ==
  IF system # "Nominal" THEN [g \in DOMAIN infos |-> [infos[g] EXCEPT !.useCount.den = Len(g)]] ELSE infos

\* Lines 331-337: every outcome of sorting each group's predecessors, over
\* the orders the unordered preds sets may be iterated in.
RECURSIVE sortAllPreds(_, _)
sortAllPreds(infos, todo) ==
  IF todo = {} THEN {infos}
  ELSE LET g == CHOOSE x \in todo : TRUE
       IN UNION { sortAllPreds([infos EXCEPT ![g].sortedPreds = sortGroups(infos, o), ![g].preds = {}], todo \ {g})
                  : o \in IterationOrders(infos, infos[g].preds) }

(***************************************************************************)
(* RecGroupSort (lines 339-359) over the topological sort utility.  A sort *)
(* state holds the work stack and the finished set, the groups in the      *)
(* order the iteration yielded them, and a log of the first call of        *)
(* pushPredecessors for each group with the number of groups yielded       *)
(* before it.                                                              *)
(***************************************************************************)
Last(s) == s[Len(s)]

NoSort == [workStack |-> <<>>, finished |-> {}, emitted |-> <<>>, visits |-> <<>>]

push(ts, item) == IF item \in ts.finished THEN ts ELSE [ts EXCEPT !.workStack = Append(@, item)]

pushAll(ts, items) == foldLeft(push, ts, items)

pushNoPredecessors(ts, infos, group) == ts

pushPredecessors(ts, infos, group) == pushAll(ts, infos[group].sortedPreds)

\* The constructor: push every group, sorted.
RecGroupSort(infos, sortedGroups) == pushAll(NoSort, sortedGroups)

RECURSIVE popFinished(_)
popFinished(ts) ==
  IF ts.workStack # <<>> /\ Last(ts.workStack) \in ts.finished
  THEN popFinished([ts EXCEPT !.workStack = SubSeq(@, 1, Len(@) - 1)])
  ELSE ts

finishCurr(ts) ==
  popFinished([ts EXCEPT !.finished = @ \cup {Last(ts.workStack)}, !.workStack = SubSeq(@, 1, Len(@) - 1)])

logVisit(ts, group) ==
  IF \E i \in DOMAIN ts.visits : ts.visits[i].group = group THEN ts
  ELSE [ts EXCEPT !.visits = Append(@, [group |-> group, before |-> Len(ts.emitted)])]

\* One iteration of the loop of stepToNext: the stack after the top item
\* pushed its predecessors.
visitTop(ts, infos) == pushPredecessors(logVisit(ts, Last(ts.workStack)), infos, Last(ts.workStack))

\* stepToNext stops when the top item is still on top.
topIsNext(ts, infos) == Last(visitTop(ts, infos).workStack) = Last(ts.workStack)

\* The iterator yields the top item and moves on.
yield(ts, infos) ==
  LET t1 == visitTop(ts, infos)
  IN finishCurr([t1 EXCEPT !.emitted = Append(@, Last(t1.workStack))])

membersReversed(group) == Reverse(group)

\* Lines 365-367: the members of a yielded group, in the group's order.
members(group) == group

(***************************************************************************)
(* The run of the pass as a state machine.                                 *)
(***************************************************************************)
NoIndexedTypes == [types |-> <<>>, indices |-> <<>>]

Init ==
  /\ system \in TypeSystems
  /\ numWorkers \in 1..MaxWorkers
  /\ wasm \in Modules
  /\ phase = "start"
  /\ counts = EmptyCounts
  /\ fstate = [i \in 1..Len(wasm.functions) |-> "idle"]
  /\ fpc = [i \in 1..Len(wasm.functions) |-> 1]
  /\ analysisMap = [i \in 1..Len(wasm.functions) |-> EmptyCounts]
  /\ completionOrder = <<>>
  /\ closure = initialClosure(EmptyCounts)
  /\ groupInfos = NoGroupInfos
  /\ topo = NoSort
  /\ indexedTypes = NoIndexedTypes
  /\ collected = <<>>

\* Lines 141-151: the module-level information, collected sequentially.
ScanModuleLevel ==
  /\ phase = "start"
  /\ counts' = scanModuleLevel(wasm)
  /\ phase' = "scan"
  /\ UNCHANGED <<system, numWorkers, wasm, fstate, fpc, analysisMap, completionOrder, closure, groupInfos, topo, indexedTypes, collected>>

\* The maps after the task of function i visited expression e: the task
\* writes to the Counts it was handed, its own entry of analysis.map.
taskUpdateShared(map, cnts, i, e) == [map |-> map, counts |-> visitExpression(cnts, e)]

taskUpdate(map, cnts, i, e) == [map |-> [map EXCEPT ![i] = visitExpression(map[i], e)], counts |-> cnts]

\* A free worker takes function i: lines 156-159, and the task is over when
\* the function is imported (line 160) or its body holds nothing.
StartFunction(i) ==
  /\ phase = "scan"
  /\ fstate[i] = "idle"
  /\ Cardinality({j \in DOMAIN fstate : fstate[j] = "running"}) < numWorkers
  /\ analysisMap' = [analysisMap EXCEPT ![i] = noteFunctionDecl(@, wasm.functions[i])]
  /\ fstate' = [fstate EXCEPT ![i] = IF wasm.functions[i].imported \/ wasm.functions[i].body = <<>> THEN "done" ELSE "running"]
  /\ completionOrder' = IF fstate'[i] = "done" THEN Append(completionOrder, i) ELSE completionOrder
  /\ UNCHANGED <<system, numWorkers, wasm, phase, counts, fpc, closure, groupInfos, topo, indexedTypes, collected>>

\* The task of function i visits the next expression of the body
\* (line 161).
VisitExpression(i) ==
  /\ phase = "scan"
  /\ fstate[i] = "running"
  /\ LET after == taskUpdate(analysisMap, counts, i, wasm.functions[i].body[fpc[i]])
     IN /\ analysisMap' = after.map
        /\ counts' = after.counts
  /\ fpc' = [fpc EXCEPT ![i] = @ + 1]
  /\ fstate' = [fstate EXCEPT ![i] = IF fpc[i] = Len(wasm.functions[i].body) THEN "done" ELSE "running"]
  /\ completionOrder' = IF fstate'[i] = "done" THEN Append(completionOrder, i) ELSE completionOrder
  /\ UNCHANGED <<system, numWorkers, wasm, phase, closure, groupInfos, topo, indexedTypes, collected>>

\* Lines 165-182: every task is over; merge the function counts into the
\* module counts and seed newTypes.
MergeFunctionCounts ==
  /\ phase = "scan"
  /\ \A i \in DOMAIN fstate : fstate[i] = "done"
  /\ \E order \in analysisMapOrders(Len(wasm.functions)) :
       /\ counts' = mergeAll(counts, analysisMap, order)
       /\ closure' = initialClosure(counts')
  /\ completionOrder' = <<>>
  /\ phase' = "closure"
  /\ UNCHANGED <<system, numWorkers, wasm, fstate, fpc, analysisMap, groupInfos, topo, indexedTypes, collected>>

\* Lines 184-218: one iteration of the worklist loop.
ExpandStep ==
  /\ phase = "closure"
  /\ closure.newTypes # <<>>
  /\ closure' = expandStep(closure)
  /\ counts' = closure'.counts
  /\ UNCHANGED <<system, numWorkers, wasm, phase, fstate, fpc, analysisMap, completionOrder, groupInfos, topo, indexedTypes, collected>>

\* Lines 231-239: collectHeapTypes returns the keys of the counts.
CollectHeapTypes ==
  /\ phase = "closure"
  /\ closure.newTypes = <<>>
  /\ collected' = keys(counts)
  /\ phase' = "collected"
  /\ UNCHANGED <<system, numWorkers, wasm, counts, fstate, fpc, analysisMap, completionOrder, closure, groupInfos, topo, indexedTypes>>

\* Lines 245-261: the frequency ordered strategy.
SortByFrequency ==
  /\ phase = "closure"
  /\ closure.newTypes = <<>>
  /\ system = "Equirecursive"
  /\ LET sorted == stableSort(counts)
     IN indexedTypes' = [types |-> keys(sorted), indices |-> setIndices(keys(sorted))]
  /\ phase' = "indexed"
  /\ UNCHANGED <<system, numWorkers, wasm, counts, fstate, fpc, analysisMap, completionOrder, closure, groupInfos, topo, collected>>

\* Lines 292-329: the group infos, with their use counts averaged.
CollectGroupInfos ==
  /\ phase = "closure"
  /\ closure.newTypes = <<>>
  /\ system # "Equirecursive"
  /\ groupInfos' = averageUseCounts(collectGroupInfos(NoGroupInfos, counts, keys(counts)))
  /\ phase' = "groups"
  /\ UNCHANGED <<system, numWorkers, wasm, counts, fstate, fpc, analysisMap, completionOrder, closure, topo, indexedTypes, collected>>

\* Lines 331-337.
SortPredecessors ==
  /\ phase = "groups"
  /\ groupInfos' \in sortAllPreds(groupInfos, DOMAIN groupInfos)
  /\ phase' = "preds"
  /\ UNCHANGED <<system, numWorkers, wasm, counts, fstate, fpc, analysisMap, completionOrder, closure, topo, indexedTypes, collected>>

\* Lines 341-352: the constructor of RecGroupSort.
RecGroupSortInit ==
  /\ phase = "preds"
  /\ \E o \in IterationOrders(groupInfos, DOMAIN groupInfos) :
       topo' = RecGroupSort(groupInfos, sortGroups(groupInfos, o))
  /\ phase' = "topo"
  /\ UNCHANGED <<system, numWorkers, wasm, counts, fstate, fpc, analysisMap, completionOrder, closure, groupInfos, indexedTypes, collected>>

\* The iteration looks for the next group: the top of the stack pushed
\* predecessors that must come first.
StepToNext ==
  /\ phase = "topo"
  /\ topo.workStack # <<>>
  /\ ~topIsNext(topo, groupInfos)
  /\ topo' = visitTop(topo, groupInfos)
  /\ UNCHANGED <<system, numWorkers, wasm, phase, counts, fstate, fpc, analysisMap, completionOrder, closure, groupInfos, indexedTypes, collected>>

\* Lines 364-368: the iteration yields the top of the stack, and its
\* members are appended to the types.
EmitGroup ==
  /\ phase = "topo"
  /\ topo.workStack # <<>>
  /\ topIsNext(topo, groupInfos)
  /\ indexedTypes' = [indexedTypes EXCEPT !.types = @ \o members(Last(topo.workStack))]
  /\ topo' = yield(topo, groupInfos)
  /\ UNCHANGED <<system, numWorkers, wasm, phase, counts, fstate, fpc, analysisMap, completionOrder, closure, groupInfos, collected>>

\* Lines 369-370: the iteration is over.
SetIndices ==
  /\ phase = "topo"
  /\ topo.workStack = <<>>
  /\ indexedTypes' = [indexedTypes EXCEPT !.indices = setIndices(indexedTypes.types)]
  /\ phase' = "indexed"
  /\ UNCHANGED <<system, numWorkers, wasm, counts, fstate, fpc, analysisMap, completionOrder, closure, groupInfos, topo, collected>>

Next ==
  \/ ScanModuleLevel
  \/ \E i \in 1..Len(wasm.functions) : StartFunction(i)
  \/ \E i \in 1..Len(wasm.functions) : VisitExpression(i)
  \/ MergeFunctionCounts
  \/ ExpandStep
  \/ CollectHeapTypes
  \/ SortByFrequency
  \/ CollectGroupInfos
  \/ SortPredecessors
  \/ RecGroupSortInit
  \/ StepToNext
  \/ EmitGroup
  \/ SetIndices

Spec == Init /\ [][Next]_vars

(***************************************************************************)
(* Properties.                                                             *)
(***************************************************************************)
Grouping == system # "Equirecursive"

ClosureFinished == phase \notin {"start", "scan"} /\ closure.newTypes = <<>>

PositionIn(s, x) == IndexOf(s, x)

\* C1: the index map of the IndexedHeapTypes returned is a bijection between
\* the N types of the output sequence and 0..N-1, with
\* indices[types[i]] = i for every position i.
C1_IndexBijection ==
  phase = "indexed" =>
    LET types == indexedTypes.types
        indices == indexedTypes.indices
    IN /\ DOMAIN indices = Range(types)
       /\ Cardinality(DOMAIN indices) = Len(types)
       /\ \A i \in DOMAIN types : indices[types[i]] = i - 1
       /\ {indices[t] : t \in DOMAIN indices} = 0..(Len(types) - 1)

C1_Witness ==
  /\ phase = "indexed"
  /\ system = "Isorecursive"
  /\ Len(indexedTypes.types) >= 5
  /\ {"S1", "S2"} \subseteq DOMAIN indexedTypes.indices

\* C2: collectHeapTypes and getOptimizedIndexedHeapTypes each return every
\* heap type of the saturated counts exactly once and nothing else, and no
\* basic heap type is ever a key of a Counts, an element of newTypes or an
\* element of an output.
C2_ExactlyOnce ==
  /\ \A t \in BasicHeapTypes :
       /\ ~has(counts, t)
       /\ \A i \in DOMAIN analysisMap : ~has(analysisMap[i], t)
       /\ ~has(closure.counts, t)
       /\ ~Contains(closure.newTypes, t)
       /\ ~Contains(collected, t)
       /\ ~Contains(indexedTypes.types, t)
  /\ phase = "collected" => NoDup(collected) /\ Range(collected) = Range(keys(counts))
  /\ phase = "indexed" => NoDup(indexedTypes.types) /\ Range(indexedTypes.types) = Range(keys(counts))

C2_Witness ==
  /\ phase = "indexed"
  /\ system = "Isorecursive"
  /\ wasm.tables = <<RefTo("func")>>
  /\ \E i \in DOMAIN wasm.functions : Contains(wasm.functions[i].body, LocalGet(RefTo("func")))
  /\ Contains(wasm.moduleCode, RefNull(RefTo("any")))
  /\ Len(indexedTypes.types) >= 6

\* C3: when closure expansion has finished, for every heap type A in the
\* counts, every non-basic child of A, every member of A's recursion group
\* and A's supertype are in the counts too.
C3_Closed ==
  ClosureFinished =>
    \A i \in DOMAIN counts :
      LET A == counts[i].type
      IN /\ \A c \in Range(getHeapTypeChildren(A)) : ~isBasic(c) => has(counts, c)
         /\ \A m \in Range(getRecGroup(A)) : has(counts, m)
         /\ \A s \in Range(getSuperType(A)) : has(counts, s)

\* A type that only its recursion group brings in, one that only a
\* supertype edge brings in, and one that only a child edge brings in.
C3_Witness ==
  /\ ClosureFinished
  /\ system = "Isorecursive"
  /\ \E i, j, k \in DOMAIN closure.enqueued :
       /\ closure.enqueued[i].type = "D" /\ ~closure.enqueued[i].seed
       /\ closure.enqueued[j].type = "B" /\ ~closure.enqueued[j].seed
       /\ closure.enqueued[k].type = "S2" /\ ~closure.enqueued[k].seed

\* The predecessor groups of a group as the type system defines them.
EdgePreds(group) ==
  IF system = "Isorecursive"
  THEN {getRecGroup(c) : c \in {x \in UNION {Range(getReferencedHeapTypes(m)) : m \in Range(group)} :
                                   ~isBasic(x) /\ getRecGroup(x) # group}}
  ELSE {getRecGroup(s) : s \in UNION {Range(getSuperType(m)) : m \in Range(group)}}

OutputGroups == {getRecGroup(t) : t \in Range(indexedTypes.types)}

\* C4: under a grouping type system, when group G2 is a predecessor of
\* group G1, every member of G2 has a smaller index than every member of G1.
C4_PredecessorsFirst ==
  (phase = "indexed" /\ Grouping) =>
    \A G1 \in OutputGroups : \A G2 \in EdgePreds(G1) :
      \A m1 \in Range(G1), m2 \in Range(G2) :
        /\ m2 \in DOMAIN indexedTypes.indices
        /\ indexedTypes.indices[m2] < indexedTypes.indices[m1]

\* A predecessor that is used less than its successor, so that use counts
\* alone would place it later.
C4_Witness ==
  /\ phase = "indexed"
  /\ system = "Isorecursive"
  /\ \E G1 \in OutputGroups : \E G2 \in EdgePreds(G1) :
       less(groupInfos[G2], groupInfos[G1])

\* C5: under Equirecursive the output lists the entries of the saturated
\* counts by descending count, entries of equal count in their insertion
\* order.
C5_FrequencyOrder ==
  (phase = "indexed" /\ system = "Equirecursive") =>
    LET types == indexedTypes.types
    IN /\ Len(types) = Len(counts)
       /\ \A i \in DOMAIN types : has(counts, types[i])
       /\ \A i, j \in DOMAIN types :
            i < j =>
              \/ at(counts, types[i]) > at(counts, types[j])
              \/ /\ at(counts, types[i]) = at(counts, types[j])
                 /\ PositionIn(keys(counts), types[i]) < PositionIn(keys(counts), types[j])

\* counts {V:3, A:5, D:5}, inserted in the order V, A, D, give [A, D, V].
C5_Witness ==
  /\ phase = "indexed"
  /\ system = "Equirecursive"
  /\ counts = <<[type |-> "V", count |-> 3], [type |-> "A", count |-> 5], [type |-> "D", count |-> 5]>>
  /\ indexedTypes.types = <<"A", "D", "V">>

\* C7: under the recursion group strategy the members of each recursion
\* group occupy one run of consecutive indices, in the group's member
\* order, also when only one member was referenced.
C7_GroupsContiguous ==
  (phase = "indexed" /\ Grouping) =>
    \A t \in Range(indexedTypes.types) :
      LET group == getRecGroup(t)
          first == PositionIn(indexedTypes.types, group[1])
      IN /\ first > 0
         /\ first + Len(group) - 1 <= Len(indexedTypes.types)
         /\ \A m \in DOMAIN group :
              /\ indexedTypes.types[first + m - 1] = group[m]
              /\ indexedTypes.indices[group[m]] = first + m - 2

\* S1 is referenced and S2 is not, L is referenced and D is not.
C7_Witness ==
  /\ phase = "indexed"
  /\ system = "Isorecursive"
  /\ \A i \in DOMAIN closure.enqueued : closure.enqueued[i].seed => closure.enqueued[i].type \notin {"S2", "D"}
  /\ \E k \in 1..(Len(indexedTypes.types) - 1) : SubSeq(indexedTypes.types, k, k + 1) = <<"S1", "S2">>
  /\ \E k \in 1..(Len(indexedTypes.types) - 1) : SubSeq(indexedTypes.types, k, k + 1) = <<"L", "D">>

ProcessedOnce ==
  /\ \A i \in DOMAIN closure.enqueued :
       /\ ~closure.enqueued[i].seed => ~closure.enqueued[i].present
       /\ has(closure.counts, closure.enqueued[i].type)
       /\ closure.enqueued[i].type \in NonBasicHeapTypes
  /\ NoDup([i \in DOMAIN closure.enqueued |-> closure.enqueued[i].type])
  /\ NoDup(closure.processed)
  /\ NoDup(closure.scanned)
  /\ closure.processed \o closure.newTypes = [i \in DOMAIN closure.enqueued |-> closure.enqueued[i].type]
  /\ Len(closure.processed) <= Cardinality(NonBasicHeapTypes)

\* The iterations the worklist loop can still make.
Remaining == Cardinality(NonBasicHeapTypes) - Len(closure.processed)

\* C8: the worklist loop ends, whatever cycles the types form.  A heap type
\* enters newTypes in the loop only when the counts do not hold it, and the
\* counts hold it when the iteration is over; so every heap type enters
\* newTypes at most once and is taken from it at most once, the members of
\* a recursion group are scanned at most once, and every iteration lowers
\* the number of iterations that remain, which is never negative.
C8_WorklistTerminates ==
  /\ [](ProcessedOnce /\ Remaining >= 0)
  /\ [][(phase = "closure" /\ closure' # closure) =>
          /\ Remaining' = Remaining - 1
          /\ Len(closure'.newTypes) + Len(closure'.processed) <= Cardinality(NonBasicHeapTypes)]_vars

\* The loop ended after processing a type that refers to itself, a cycle
\* through two types and a supertype chain.
C8_Witness ==
  /\ ClosureFinished
  /\ {"C", "B", "A", "S1", "S2", "L"} \subseteq Range(closure.processed)

(***************************************************************************)
(* The run with one worker that takes the functions in declaration order   *)
(* and iterates every unordered container in first-encounter order.        *)
(***************************************************************************)
SequentialFunctionCounts(func) ==
  IF func.imported THEN noteFunctionDecl(EmptyCounts, func)
  ELSE walk(noteFunctionDecl(EmptyCounts, func), func.body)

SequentialMerge(cnts, funcs) ==
  foldLeft(LAMBDA c, func : mergeFunctionCounts(c, SequentialFunctionCounts(func)), cnts, funcs)

SequentialMerged == SequentialMerge(scanModuleLevel(wasm), wasm.functions)

RECURSIVE SequentialExpand(_)
SequentialExpand(cs) == IF cs.newTypes = <<>> THEN cs ELSE SequentialExpand(expandStep(cs))

SequentialCounts(merged) ==
  LET cs == initialClosure(merged) IN CASE evaluated(cs) -> SequentialExpand(cs).counts

RECURSIVE SequentialSort(_, _)
SequentialSort(ts, infos) ==
  IF ts.workStack = <<>> THEN ts
  ELSE IF topIsNext(ts, infos) THEN SequentialSort(yield(ts, infos), infos)
       ELSE SequentialSort(visitTop(ts, infos), infos)

AllMembers(groups) == foldLeft(LAMBDA types, g : types \o members(g), <<>>, groups)

SequentialTypes(cnts) ==
  IF system = "Equirecursive" THEN keys(stableSort(cnts))
  ELSE LET infos0 == averageUseCounts(collectGroupInfos(NoGroupInfos, cnts, keys(cnts)))
           infos == CHOOSE x \in sortAllPreds(infos0, DOMAIN infos0) : TRUE
           start == RecGroupSort(infos, sortGroups(infos, byIndex(infos, DOMAIN infos)))
       IN CASE evaluated(infos0) /\ evaluated(infos) /\ evaluated(start) -> AllMembers(SequentialSort(start, infos).emitted)

\* C6: whatever the interleaving of the function tasks, the number of
\* workers and the iteration order of the unordered containers: a task
\* that ended left in its entry of analysis.map the counts of its function
\* alone, and the merged counts (keys, counts and insertion order) and the
\* outputs are those of the sequential run.
C6_Deterministic ==
  /\ phase = "scan" =>
       \A i \in DOMAIN fstate : fstate[i] = "done" => analysisMap[i] = SequentialFunctionCounts(wasm.functions[i])
  /\ (phase = "closure" /\ closure.processed = <<>>) => counts = SequentialMerged
  /\ phase \in {"collected", "indexed"} =>
       LET merged == SequentialMerged
       IN evaluated(merged) /\ counts = SequentialCounts(merged)
  /\ phase = "collected" => collected = keys(counts)
  /\ phase = "indexed" =>
       LET types == SequentialTypes(counts)
       IN /\ evaluated(types)
          /\ indexedTypes.types = types
          /\ indexedTypes.indices = setIndices(types)

\* The tasks of two different functions that refer to a common type ran on
\* two workers, and the second declared one ended first.
C6_Witness ==
  /\ phase = "scan"
  /\ numWorkers = 2
  /\ completionOrder = <<2, 1>>
  /\ wasm.functions[1] # wasm.functions[2]
  /\ Len(wasm.functions[1].body) > 1 /\ Len(wasm.functions[2].body) > 1
  /\ \E t \in NonBasicHeapTypes : has(analysisMap[1], t) /\ has(analysisMap[2], t)
  /\ \E t \in NonBasicHeapTypes : has(analysisMap[2], t) /\ ~has(analysisMap[1], t)

\* C9: visiting a local.get or a local.set/tee of a reference type makes
\* the type's non-basic heap type a key of the counts and changes no count
\* (a new entry has count 0); of a non-reference type it changes nothing.
\* A heap type that is the type of a local.get is in the outputs.
C9_LocalsIncluded ==
  /\ [][\A i \in DOMAIN fstate :
          (/\ phase = "scan"
           /\ fstate[i] = "running"
           /\ fpc'[i] = fpc[i] + 1
           /\ wasm.functions[i].body[fpc[i]].kind \in {"LocalGet", "LocalSet"}) =>
            LET curr == wasm.functions[i].body[fpc[i]]
                before == analysisMap[i]
                after == analysisMap'[i]
            IN /\ \A k \in DOMAIN before : after[k] = before[k]
               /\ counts' = counts
               /\ \A j \in DOMAIN analysisMap : j # i => analysisMap'[j] = analysisMap[j]
               /\ IF isRef(curr.ty) /\ ~isBasic(getHeapType(curr.ty))
                  THEN /\ has(after, getHeapType(curr.ty))
                       /\ ~has(before, getHeapType(curr.ty)) =>
                            after = Append(before, [type |-> getHeapType(curr.ty), count |-> 0])
                       /\ has(before, getHeapType(curr.ty)) => after = before
                  ELSE after = before]_vars
  /\ [](\A i \in DOMAIN wasm.functions : \A k \in DOMAIN wasm.functions[i].body :
          LET curr == wasm.functions[i].body[k]
          IN (curr.kind \in {"LocalGet", "LocalSet"} /\ isRef(curr.ty) /\ ~isBasic(getHeapType(curr.ty))) =>
               /\ phase = "collected" => Contains(collected, getHeapType(curr.ty))
               /\ phase = "indexed" => getHeapType(curr.ty) \in DOMAIN indexedTypes.indices)

\* D is only the type of a local.get: it is in the output with count 0;
\* other functions hold a local.get of a basic heap type and a local.tee.
C9_Witness ==
  /\ phase = "indexed"
  /\ system = "Equirecursive"
  /\ has(counts, "D") /\ at(counts, "D") = 0
  /\ "D" \in DOMAIN indexedTypes.indices
  /\ \E i \in DOMAIN wasm.functions : Contains(wasm.functions[i].body, LocalGet(RefTo("D")))
  /\ \E i \in DOMAIN wasm.functions : Contains(wasm.functions[i].body, LocalGet(RefTo("func")))
  /\ \E i \in DOMAIN wasm.functions : Contains(wasm.functions[i].body, LocalSet(RefTo("C")))

(***************************************************************************)
(* The priority of a group as the counts define it.                        *)
(***************************************************************************)
RECURSIVE SumCounts(_)
SumCounts(ms) == IF ms = <<>> THEN 0 ELSE at(counts, Head(ms)) + SumCounts(Tail(ms))

UseNum(group) == SumCounts(group)

UseDen(group) == IF system = "Isorecursive" THEN Len(group) ELSE 1

FirstEncounter(group) ==
  CHOOSE i \in DOMAIN counts : counts[i].type \in Range(group) /\ \A j \in 1..(i - 1) : counts[j].type \notin Range(group)

\* g1 is visited before g2: a greater average use count, or the same and
\* an earlier first encounter.
Higher(g1, g2) ==
  \/ UseNum(g1) * UseDen(g2) > UseNum(g2) * UseDen(g1)
  \/ /\ UseNum(g1) * UseDen(g2) = UseNum(g2) * UseDen(g1)
     /\ FirstEncounter(g1) < FirstEncounter(g2)

RECURSIVE PredClosure(_)
PredClosure(S) ==
  LET more == S \cup UNION {EdgePreds(g) : g \in S}
  IN IF more = S THEN S ELSE PredClosure(more)

Emitted(n) == {topo.emitted[i] : i \in 1..n}

\* C10: groups are visited by descending average use count, then ascending
\* first encounter, the predecessors of a group not yet emitted going ahead
\* of it in the same order.  Every emitted group is the group of highest
\* priority not yet emitted or one of its transitive predecessors; two
\* predecessors of a group, both not emitted when the group is first
\* visited, come out by priority unless the lower one precedes a higher
\* one; without predecessors the output is in priority order.
C10_PriorityOrder ==
  (phase = "indexed" /\ Grouping) =>
    LET out == topo.emitted
        all == OutputGroups
        pos(g) == PositionIn(out, g)
    IN /\ Range(out) = all
       /\ \A k \in DOMAIN out :
            LET left == all \ Emitted(k - 1)
                best == CHOOSE g \in left : \A h \in left : h # g => Higher(g, h)
            IN out[k] \in PredClosure({best})
       /\ \A v \in Range(topo.visits) :
            \A P1, P2 \in EdgePreds(v.group) :
              (/\ pos(P1) > v.before
               /\ pos(P2) > v.before
               /\ Higher(P1, P2)
               /\ \A Q \in EdgePreds(v.group) :
                    (pos(Q) > v.before /\ Higher(Q, P2)) => P2 \notin PredClosure({Q})) =>
                pos(P1) < pos(P2)
       /\ (\A g \in all : EdgePreds(g) = {}) =>
            \A i, j \in DOMAIN out : i < j => Higher(out[i], out[j])

\* Isorecursive, no predecessors, three groups or more, not in the order of
\* their first encounter, and a two-member group that its average places
\* after a group with a smaller sum.
C10_Witness ==
  /\ phase = "indexed"
  /\ system = "Isorecursive"
  /\ \A g \in OutputGroups : EdgePreds(g) = {}
  /\ Cardinality(OutputGroups) >= 3
  /\ \E g, h \in OutputGroups : Len(g) = 2 /\ UseNum(g) > UseNum(h) /\ Higher(h, g)
  /\ \E i \in 1..(Len(topo.emitted) - 1) :
       /\ FirstEncounter(topo.emitted[i]) > FirstEncounter(topo.emitted[i + 1])

====
